---- MODULE Spec2Model ----
(***************************************************************************)
(* Model of vmi_demo.c: a LibVMI client that opens one introspection       *)
(* session on a guest, walks the guest's circular process list three times *)
(* (process, module and thread pass) and releases the session.             *)
(*                                                                         *)
(* Guest memory is the environment.  It is described by the variable       *)
(* guest; every LibVMI read is answered from it.  64-bit quantities        *)
(* (addr_t, size_t) are four 16-bit limbs, most significant first, so that *)
(* address arithmetic wraps modulo 2^64 as it does in C.                   *)
(***************************************************************************)
EXTENDS Integers, Sequences, FiniteSets, TLC

(***************************************************************************)
(* Bounds of the model.                                                    *)
(***************************************************************************)
\* largest number of process nodes the guest's list holds
MaxNodes == 3
\* visits of one pass that the observation trace records; later visits only
\* saturate the counters (a pass that never ends must revisit a state)
MaxTrace == MaxNodes + 2

(***************************************************************************)
(* 64-bit arithmetic on limbs.                                             *)
(***************************************************************************)
Limb == 2 ^ 16

\* a small non-negative C integer converted to a 64-bit value
U64(n) == <<0, 0, n \div Limb, n % Limb>>

Zero64 == U64(0)

\* The one element of a singleton set.  Operators below bind their operands
\* with {e : x \in {operand}} so that each operand is evaluated once.
The(S) == CHOOSE r \in S : TRUE

\* limb-wise sum with carries
AddLimbs(a, b) ==
  LET s0 == a[4] + b[4]
      s1 == a[3] + b[3] + (s0 \div Limb)
      s2 == a[2] + b[2] + (s1 \div Limb)
      s3 == a[1] + b[1] + (s2 \div Limb)
  IN  <<s3 % Limb, s2 % Limb, s1 % Limb, s0 % Limb>>

\* a + b modulo 2^64
Add64(a, b) == The({AddLimbs(x, y) : x \in {a}, y \in {b}})

\* two's complement of b
Neg64(b) ==
  The({AddLimbs(<<Limb - 1 - y[1], Limb - 1 - y[2], Limb - 1 - y[3], Limb - 1 - y[4]>>,
                <<0, 0, 0, 1>>) : y \in {b}})

\* a - b modulo 2^64
Sub64(a, b) == Add64(a, Neg64(b))

\* unsigned a < b
Lt64(a, b) ==
  \/ a[1] < b[1]
  \/ a[1] = b[1] /\ a[2] < b[2]
  \/ a[1] = b[1] /\ a[2] = b[2] /\ a[3] < b[3]
  \/ a[1] = b[1] /\ a[2] = b[2] /\ a[3] = b[3] /\ a[4] < b[4]

\* the low 32 bits of a word read as vmi_pid_t (a signed 32-bit integer)
ToInt32(w) ==
  IF w[3] >= Limb \div 2 THEN (w[3] - Limb) * Limb + w[4]
                         ELSE w[3] * Limb + w[4]

(***************************************************************************)
(* Program constants.                                                      *)
(***************************************************************************)
DEMO_SUCCESS == 0
DEMO_ERROR_INIT == -1
DEMO_ERROR_PROCESS == -4
EXIT_SUCCESS == 0
EXIT_FAILURE == 1
\* no value: a NULL pointer, a failed read, a missing table entry
NULL == <<>>

\* the offsets of the documented guest (libvmi.conf of the Windows 7 guest)
WinPid == 384
WinTasks == 392
WinPname == 736
\* module pass: the test read at EPROCESS+0x100
TestOffset == 256
\* thread pass: the scanned range [0x150, 0x200) and its stride
ScanStart == 336
ScanEnd == 512
ScanStride == 8
\* the cap on analysed nodes of the module and thread pass
AnalysisCap == 10
\* module pass analyses pid > 100, thread pass pid > 4
ModulePidFloor == 100
ThreadPidFloor == 4

\* 0xfffff80000000000 and 0xffffffffffffffff, the open interval of the scan
KernelLow == <<65535, 63488, 0, 0>>
KernelHigh == <<65535, 65535, 65535, 65535>>

OffsetNames == {"win_tasks", "win_pid", "win_pname"}

(***************************************************************************)
(* The guest.                                                              *)
(***************************************************************************)
\* link-field addresses of the guest's nodes: 0xfffffa8000001188,
\* 0xfffffa8000002188, 0x108 (its base wraps below zero), 0xfffffa8000003188...
\* (one node per page)
NodeSpan == 2 ^ 12

LinkAddr(i) ==
  IF i = 3 THEN <<0, 0, 0, 264>>
           ELSE <<65535, 64128, 0, NodeSpan * i + WinTasks>>

\* a kernel address at which nothing is mapped: 0xfffffa800000f188
WildAddr == <<65535, 64128, 0, 61832>>

\* the address of the symbol PsActiveProcessHead: 0xfffff80002a3b440
HeadSymbolAddr == <<65535, 63488, 675, 46144>>

\* what the guest stores in node i
PidOf(i) == <<228, 836, 4, 44>>[((i - 1) % 4) + 1]

NameOf(i) ==
  << <<"s", "m", "s", "s", ".", "e", "x", "e">>,
     <<"e", "x", "p", "l", "o", "r", "e", "r">>,
     <<"S", "y", "s", "t", "e", "m">>,
     <<"s", "v", "c">> >>[((i - 1) % 4) + 1]

NodeBase(i) == Sub64(LinkAddr(i), U64(WinTasks))

ScanOffsets == {o \in ScanStart..(ScanEnd - 1) : (o - ScanStart) % ScanStride = 0}

\* the values the "mixed" profile stores in the scanned words; NULL is a
\* word that cannot be read
MixedValues ==
  << KernelLow,                          \* 0xfffff80000000000
     <<65535, 63488, 0, 1>>,             \* 0xfffff80000000001
     KernelHigh,                         \* 0xffffffffffffffff
     <<65535, 65535, 65535, 65534>>,     \* 0xfffffffffffffffe
     <<65535, 32768, 0, 0>>,             \* 0xffff800000000000
     <<0, 32767, 65535, 61440>>,         \* 0x00007ffffffff000
     Zero64,
     NULL >>

Profiles == {"kernel", "mixed"}

\* the word the guest holds at base(i) + o, for a scanned offset o other
\* than the pid and link fields, and for the test word of the module pass
FillerWord(profile, o) ==
  CASE profile = "kernel" -> <<65535, 64128, 0, 4096>>
    [] o = TestOffset -> NULL
    [] OTHER -> MixedValues[(((o - ScanStart) \div ScanStride) % Len(MixedValues)) + 1]

\* the 8 bytes at the pid field: the pid in the low half
PidWord(profile, i) ==
  IF profile = "kernel" THEN <<65535, 64128, 0, PidOf(i)>>
                        ELSE U64(PidOf(i))

\* the 8-byte word the guest holds at base(i) + o, NULL when unreadable.
\* g.nodes[i] = [pid |-> readable?, name |-> readable?, next |-> link word or NULL]
NodeWord(g, i, o) ==
  CASE o = WinPid -> IF g.nodes[i].pid THEN PidWord(g.profile, i) ELSE NULL
    [] o = WinTasks -> g.nodes[i].next
    [] o \in ScanOffsets \cup {TestOffset} -> FillerWord(g.profile, o)
    [] OTHER -> NULL

\* the string the guest holds at base(i) + o, NULL when unreadable
NodeStr(g, i, o) ==
  IF o = WinPname /\ g.nodes[i].name THEN NameOf(i) ELSE NULL

\* the nodes in whose page the address a lies, each with the offset of a
\* in that page: <<i, o>>
NodesAt(g, a) ==
  {<<h[1], h[2][4]>> :
     h \in {x \in {<<i, Sub64(a, NodeBase(i))>> : i \in 1..Len(g.nodes)} :
              x[2][1] = 0 /\ x[2][2] = 0 /\ x[2][3] = 0 /\ x[2][4] < NodeSpan}}

\* the table and symbols a session can be opened with: the documented
\* offsets, one offset missing, one offset configured as 0, no offset
GoodOffsets ==
  [n \in OffsetNames |->
     CASE n = "win_tasks" -> U64(WinTasks)
       [] n = "win_pid" -> U64(WinPid)
       [] OTHER -> U64(WinPname)]

OffsetTables ==
  {GoodOffsets, [n \in OffsetNames |-> NULL]}
  \cup { [GoodOffsets EXCEPT ![n] = v] : n \in OffsetNames, v \in {NULL, Zero64} }

Sessions ==
  { [offsets |-> GoodOffsets, symbols |-> y] : y \in {{}, {"PsActiveProcessHead"}} }
  \cup { [offsets |-> t, symbols |-> {"PsActiveProcessHead"}] : t \in OffsetTables }

\* the guest lists: n nodes chained 1 -> 2 -> ... -> n; either the link of
\* one node is unreadable (and the last links back to the head), or every
\* link is readable and the last node links to the head (a well-formed
\* circle), to a later node or itself (a cycle without the head) or to an
\* unmapped address
GuestNodes(n, kinds, failAt, tail) ==
  [i \in 1..n |->
     [pid  |-> kinds[i] # "nopid",
      name |-> kinds[i] # "noname",
      next |-> IF i = failAt THEN NULL
               ELSE IF i < n THEN LinkAddr(i + 1) ELSE tail]]

Guests ==
  UNION { UNION { { [nodes   |-> GuestNodes(n, kinds, sh[1], sh[2]),
                     head    |-> h,
                     profile |-> p] :
                       h \in {NULL, LinkAddr(1)}, p \in Profiles,
                       sh \in ({<<k, LinkAddr(1)>> : k \in 1..n}
                               \cup {<<0, LinkAddr(j)>> : j \in 1..n}
                               \cup {<<0, WildAddr>>}) } :
                  kinds \in [1..n -> {"ok", "nopid", "noname"}] } :
          n \in 1..MaxNodes }

(***************************************************************************)
(* LibVMI, answered from the session and the guest.                        *)
(***************************************************************************)
\* the 8 bytes at address a, NULL when they cannot be read
WordAt(g, a) ==
  IF a = HeadSymbolAddr THEN g.head
  ELSE The({IF hits = {} THEN NULL
            ELSE The({NodeWord(g, h[1], h[2]) : h \in {The(hits)}}) :
            hits \in {NodesAt(g, a)}})

ReadWord(g, a) == The({WordAt(g, x) : x \in {a}})

\* the string at address a, NULL when it cannot be read
StrAt(g, a) ==
  The({IF hits = {} THEN NULL
       ELSE The({NodeStr(g, h[1], h[2]) : h \in {The(hits)}}) :
       hits \in {NodesAt(g, a)}})

ReadStr(g, a) == The({StrAt(g, x) : x \in {a}})

\* vmi_read_addr_va: 8 bytes at a, NULL for VMI_FAILURE
vmi_read_addr_va(g, a) == ReadWord(g, a)

\* vmi_read_32_va: the low 4 bytes at a (little endian), NULL for VMI_FAILURE
vmi_read_32_va(g, a) ==
  The({IF w = NULL THEN NULL ELSE <<0, 0, w[3], w[4]>> : w \in {ReadWord(g, a)}})

\* vmi_read_str_va: a fresh copy of the string at a, NULL on failure
vmi_read_str_va(g, a) == ReadStr(g, a)

\* vmi_read_addr_ksym: resolve the symbol, then read 8 bytes at its address
vmi_read_addr_ksym(s, g, name) ==
  IF name \in s.symbols THEN ReadWord(g, HeadSymbolAddr) ELSE NULL

\* vmi_get_offset: NULL for VMI_FAILURE
vmi_get_offset(s, name) == s.offsets[name]

get_offset_safe(s, name) ==
  IF vmi_get_offset(s, name) = NULL THEN Zero64 ELSE vmi_get_offset(s, name)

\* strstr(hay, needle) # NULL
StrStr(hay, needle) ==
  \E k \in 0..(Len(hay) - Len(needle)) : SubSeq(hay, k + 1, k + Len(needle)) = needle

DotExe == <<".", "e", "x", "e">>
Explorer == <<"e", "x", "p", "l", "o", "r", "e", "r">>

(***************************************************************************)
(* State.                                                                  *)
(***************************************************************************)
VARIABLES
  guest,        \* guest memory (environment)
  session,      \* what the opened LibVMI instance holds: offsets, symbols
  pc,           \* position of the program
  g_vmi,        \* TRUE when the global handle is not NULL
  result,       \* main's result
  exitCode,     \* main's return value, -1 while running
  list_head, current_process, pid, proc_name,
  tasks_offset, pid_offset, pname_offset,
  process_count, total_analyzed, total_processes_analyzed,
  thread_count, offset,
  \* observation of the run
  records,      \* lines printed by the process pass: [pid, name, base]
  visited,      \* nodes visited by the current pass, with the outcome of each read
  nvis,         \* number of nodes visited by the current pass (saturating)
  reads,        \* guest-memory reads of the current pass (saturating)
  lookups,      \* symbol resolutions of the current pass
  stop,         \* why the current pass left its loop
  returns,      \* <<pass, value returned>> of every finished pass
  acquired, released,  \* calls of vmi_init_complete that succeeded, of vmi_destroy
  strayOps,     \* a LibVMI call was made on a NULL handle
  outstanding,  \* name buffers returned by vmi_read_str_va and not yet freed
  writes        \* writes the guest has made to its own memory (environment)

prog == <<pc, g_vmi, result, exitCode, list_head, current_process, pid, proc_name,
          tasks_offset, pid_offset, pname_offset, process_count, total_analyzed,
          total_processes_analyzed, thread_count, offset>>
obs == <<records, visited, nvis, reads, lookups, stop, returns, acquired, released,
         strayOps, outstanding>>
vars == <<guest, session, writes, prog, obs>>

\* counters of the observation stop counting at CountCap
CountCap == MaxTrace + 1
Sat(n) == IF n < CountCap THEN n + 1 ELSE n

\* the outcome of a read of the current visit; "again" when the visit had
\* read that field before
Note(field, ok) ==
  IF nvis = Len(visited) /\ nvis > 0
  THEN [visited EXCEPT ![nvis][field] =
          IF @ # "none" THEN "again" ELSE IF ok THEN "ok" ELSE "fail"]
  ELSE visited

Init ==
  /\ guest \in Guests
  /\ session = NULL
  /\ pc = "main"
  /\ g_vmi = FALSE
  /\ result = DEMO_SUCCESS
  /\ exitCode = -1
  /\ list_head = Zero64 /\ current_process = Zero64
  /\ pid = 0 /\ proc_name = NULL
  /\ tasks_offset = Zero64 /\ pid_offset = Zero64 /\ pname_offset = Zero64
  /\ process_count = 0 /\ total_analyzed = 0 /\ total_processes_analyzed = 0
  /\ thread_count = 0 /\ offset = 0
  /\ records = <<>> /\ visited = <<>> /\ nvis = 0 /\ reads = 0 /\ lookups = 0
  /\ stop = "none" /\ returns = <<>>
  /\ acquired = 0 /\ released = 0 /\ strayOps = FALSE
  /\ outstanding = 0 /\ writes = 0

(***************************************************************************)
(* main and the session.                                                   *)
(***************************************************************************)
\* main calls initialize_vmi: vmi_init_complete either fails and leaves
\* g_vmi NULL, or stores a handle
initialize_vmi ==
  /\ pc = "main"
  /\ \E s \in Sessions \cup {NULL} :
       IF s = NULL
       THEN /\ result' = DEMO_ERROR_INIT
            /\ pc' = "cleanup"
            /\ UNCHANGED <<session, g_vmi, acquired>>
       ELSE /\ session' = s
            /\ g_vmi' = TRUE
            /\ acquired' = acquired + 1
            /\ result' = DEMO_SUCCESS
            /\ pc' = "proc_offsets"
  /\ UNCHANGED <<guest, exitCode, list_head, current_process, pid, proc_name,
                 tasks_offset, pid_offset, pname_offset, process_count,
                 total_analyzed, total_processes_analyzed, thread_count, offset,
                 records, visited, nvis, reads, lookups, stop, returns, released,
                 strayOps, outstanding, writes>>

\* a pass returns r to main
Return(pass, r) ==
  /\ result' = r
  /\ returns' = Append(returns, <<pass, r>>)
  /\ pc' = "main_" \o pass

\* main returning at once when the process pass fails, without cleanup
main_after_processes_EarlyReturn ==
  /\ pc = "main_proc"
  /\ pc' = IF result # DEMO_SUCCESS THEN "exit" ELSE "mod_offsets"
  /\ exitCode' = IF result # DEMO_SUCCESS THEN EXIT_FAILURE ELSE exitCode
  /\ UNCHANGED <<guest, session, g_vmi, result, list_head,
                 current_process, pid, proc_name, tasks_offset, pid_offset,
                 pname_offset, process_count, total_analyzed,
                 total_processes_analyzed, thread_count, offset, obs, writes>>

\* main going on to the module pass whatever the process pass returned
main_after_processes_Ungated ==
  /\ pc = "main_proc"
  /\ pc' = "mod_offsets"
  /\ UNCHANGED <<guest, session, g_vmi, result, exitCode, list_head,
                 current_process, pid, proc_name, tasks_offset, pid_offset,
                 pname_offset, process_count, total_analyzed,
                 total_processes_analyzed, thread_count, offset, obs, writes>>

\* main after enumerate_processes: the module pass on success, cleanup otherwise
main_after_processes ==
  /\ pc = "main_proc"
  /\ pc' = IF result # DEMO_SUCCESS THEN "cleanup" ELSE "mod_offsets"
  /\ UNCHANGED <<guest, session, g_vmi, result, exitCode, list_head,
                 current_process, pid, proc_name, tasks_offset, pid_offset,
                 pname_offset, process_count, total_analyzed,
                 total_processes_analyzed, thread_count, offset, obs, writes>>

\* main after enumerate_modules
main_after_modules ==
  /\ pc = "main_mod"
  /\ pc' = IF result # DEMO_SUCCESS THEN "cleanup" ELSE "thr_offsets"
  /\ UNCHANGED <<guest, session, g_vmi, result, exitCode, list_head,
                 current_process, pid, proc_name, tasks_offset, pid_offset,
                 pname_offset, process_count, total_analyzed,
                 total_processes_analyzed, thread_count, offset, obs, writes>>

\* main after enumerate_threads: cleanup either way
main_after_threads ==
  /\ pc = "main_thr"
  /\ pc' = IF result # DEMO_SUCCESS THEN "cleanup" ELSE "cleanup"
  /\ UNCHANGED <<guest, session, g_vmi, result, exitCode, list_head,
                 current_process, pid, proc_name, tasks_offset, pid_offset,
                 pname_offset, process_count, total_analyzed,
                 total_processes_analyzed, thread_count, offset, obs, writes>>

\* cleanup that judges the run by the handle instead of the result
cleanup_vmi_ExitByHandle ==
  /\ pc = "cleanup"
  /\ g_vmi' = FALSE
  /\ released' = IF g_vmi THEN released + 1 ELSE released
  /\ exitCode' = IF g_vmi THEN EXIT_SUCCESS ELSE EXIT_FAILURE
  /\ pc' = "exit"
  /\ UNCHANGED <<guest, session, result, list_head, current_process, pid, proc_name,
                 tasks_offset, pid_offset, pname_offset, process_count,
                 total_analyzed, total_processes_analyzed, thread_count, offset,
                 records, visited, nvis, reads, lookups, stop, returns, acquired,
                 strayOps, outstanding, writes>>

\* cleanup: vmi_destroy when the handle is set, and main's return value
cleanup_vmi ==
  /\ pc = "cleanup"
  /\ g_vmi' = FALSE
  /\ released' = IF g_vmi THEN released + 1 ELSE released
  /\ exitCode' = IF result = DEMO_SUCCESS THEN EXIT_SUCCESS ELSE EXIT_FAILURE
  /\ pc' = "exit"
  /\ UNCHANGED <<guest, session, result, list_head, current_process, pid, proc_name,
                 tasks_offset, pid_offset, pname_offset, process_count,
                 total_analyzed, total_processes_analyzed, thread_count, offset,
                 records, visited, nvis, reads, lookups, stop, returns, acquired,
                 strayOps, outstanding, writes>>

(***************************************************************************)
(* The steps the three passes share.  Each pass is a sequence of LibVMI    *)
(* calls; one action is the code from one call to the next.                *)
(***************************************************************************)
\* FreeName that forgets the buffer without freeing it
FreeName_Leak ==
  /\ outstanding' = outstanding
  /\ proc_name' = NULL

\* if (proc_name) { free(proc_name); proc_name = NULL; }
FreeName ==
  /\ outstanding' = IF proc_name # NULL THEN outstanding - 1 ELSE outstanding
  /\ proc_name' = NULL

\* entry of a pass: the locals, and the three get_offset_safe calls
PassEntry ==
  /\ list_head' = Zero64 /\ current_process' = Zero64
  /\ pid' = 0 /\ proc_name' = NULL
  /\ tasks_offset' = get_offset_safe(session, "win_tasks")
  /\ pid_offset' = get_offset_safe(session, "win_pid")
  /\ pname_offset' = get_offset_safe(session, "win_pname")
  /\ visited' = <<>> /\ nvis' = 0 /\ reads' = 0 /\ lookups' = 0 /\ stop' = "none"
  /\ strayOps' = (strayOps \/ ~g_vmi)

\* ReadHead without the test of the result: the walk starts at address 0
\* when the head cannot be read
ReadHead_Unchecked(pass, nextpc) ==
  \E h \in {vmi_read_addr_ksym(session, guest, "PsActiveProcessHead")} :
      /\ lookups' = Sat(lookups)
      /\ reads' = IF "PsActiveProcessHead" \in session.symbols THEN Sat(reads) ELSE reads
      /\ strayOps' = (strayOps \/ ~g_vmi)
      /\ list_head' = IF h = NULL THEN Zero64 ELSE h
      /\ current_process' = IF h = NULL THEN Zero64 ELSE h
      /\ pc' = nextpc
      /\ UNCHANGED <<result, returns>>

\* ReadHead followed by a loop that tests current_process != list_head before
\* its body: the pass ends at once, having visited nothing
ReadHead_PreTest(pass, nextpc) ==
  \E h \in {vmi_read_addr_ksym(session, guest, "PsActiveProcessHead")} :
      /\ lookups' = Sat(lookups)
      /\ reads' = IF "PsActiveProcessHead" \in session.symbols THEN Sat(reads) ELSE reads
      /\ strayOps' = (strayOps \/ ~g_vmi)
      /\ IF h = NULL
         THEN /\ Return(pass, DEMO_ERROR_PROCESS)
              /\ UNCHANGED <<list_head, current_process>>
         ELSE /\ list_head' = h
              /\ current_process' = h
              /\ Return(pass, DEMO_SUCCESS)

\* vmi_read_addr_ksym of the list head; on failure the pass returns the error
ReadHead(pass, nextpc) ==
  \E h \in {vmi_read_addr_ksym(session, guest, "PsActiveProcessHead")} :
      /\ lookups' = Sat(lookups)
      /\ reads' = IF "PsActiveProcessHead" \in session.symbols THEN Sat(reads) ELSE reads
      /\ strayOps' = (strayOps \/ ~g_vmi)
      /\ IF h = NULL
         THEN /\ Return(pass, DEMO_ERROR_PROCESS)
              /\ UNCHANGED <<list_head, current_process>>
         ELSE /\ list_head' = h
              /\ current_process' = h
              /\ pc' = nextpc
              /\ UNCHANGED <<result, returns>>

\* ReadPid with the subtraction of the link offset left out: the link
\* address is taken for the node base
ReadPid_NoBase(okpc, failpc) ==
  \E base \in {current_process} :
  \E v \in {vmi_read_32_va(guest, Add64(base, pid_offset))} :
      /\ current_process' = base
      /\ nvis' = Sat(nvis)
      /\ visited' = IF nvis < MaxTrace
                    THEN Append(visited,
                           [link |-> current_process, base |-> base,
                            pid |-> IF v = NULL THEN "fail" ELSE "ok",
                            name |-> "none", next |-> "none"])
                    ELSE visited
      /\ reads' = Sat(reads)
      /\ strayOps' = (strayOps \/ ~g_vmi)
      /\ pid' = IF v = NULL THEN pid ELSE ToInt32(v)
      /\ pc' = IF v = NULL THEN failpc ELSE okpc

\* ReadPid without the test of the result: the node goes on to the name read
\* with the pid of an earlier node when its own pid cannot be read
ReadPid_Unchecked(okpc, failpc) ==
  \E base \in {Sub64(current_process, tasks_offset)} :
  \E v \in {vmi_read_32_va(guest, Add64(base, pid_offset))} :
      /\ current_process' = base
      /\ nvis' = Sat(nvis)
      /\ visited' = IF nvis < MaxTrace
                    THEN Append(visited,
                           [link |-> current_process, base |-> base,
                            pid |-> IF v = NULL THEN "fail" ELSE "ok",
                            name |-> "none", next |-> "none"])
                    ELSE visited
      /\ reads' = Sat(reads)
      /\ strayOps' = (strayOps \/ ~g_vmi)
      /\ pid' = IF v = NULL THEN pid ELSE ToInt32(v)
      /\ pc' = okpc

\* top of the loop: the node base, then the read of the pid
ReadPid(okpc, failpc) ==
  \E base \in {Sub64(current_process, tasks_offset)} :
  \E v \in {vmi_read_32_va(guest, Add64(base, pid_offset))} :
      /\ current_process' = base
      /\ nvis' = Sat(nvis)
      /\ visited' = IF nvis < MaxTrace
                    THEN Append(visited,
                           [link |-> current_process, base |-> base,
                            pid |-> IF v = NULL THEN "fail" ELSE "ok",
                            name |-> "none", next |-> "none"])
                    ELSE visited
      /\ reads' = Sat(reads)
      /\ strayOps' = (strayOps \/ ~g_vmi)
      /\ pid' = IF v = NULL THEN pid ELSE ToInt32(v)
      /\ pc' = IF v = NULL THEN failpc ELSE okpc

\* ReadName without the test of the result: the record is printed even
\* when the name could not be read
ReadName_Unchecked(okpc, failpc) ==
  \E v \in {vmi_read_str_va(guest, Add64(current_process, pname_offset))} :
      /\ proc_name' = v
      /\ outstanding' = IF v = NULL THEN outstanding ELSE Sat(outstanding)
      /\ visited' = Note("name", v # NULL)
      /\ reads' = Sat(reads)
      /\ strayOps' = (strayOps \/ ~g_vmi)
      /\ pc' = okpc

\* ReadName that reads the name again when the read fails
ReadName_Retry(okpc, failpc) ==
  \E v \in {vmi_read_str_va(guest, Add64(current_process, pname_offset))} :
      /\ proc_name' = v
      /\ outstanding' = IF v = NULL THEN outstanding ELSE Sat(outstanding)
      /\ visited' = Note("name", v # NULL)
      /\ reads' = Sat(reads)
      /\ strayOps' = (strayOps \/ ~g_vmi)
      /\ pc' = IF v = NULL THEN pc ELSE okpc

\* the read of the name
ReadName(okpc, failpc) ==
  \E v \in {vmi_read_str_va(guest, Add64(current_process, pname_offset))} :
      /\ proc_name' = v
      /\ outstanding' = IF v = NULL THEN outstanding ELSE Sat(outstanding)
      /\ visited' = Note("name", v # NULL)
      /\ reads' = Sat(reads)
      /\ strayOps' = (strayOps \/ ~g_vmi)
      /\ pc' = IF v = NULL THEN failpc ELSE okpc

\* ReadLink that goes on with the next iteration when the link read fails
ReadLink_NoBreak(pass, more, looppc) ==
  \E v \in {vmi_read_addr_va(guest, Add64(current_process, tasks_offset))} :
      /\ visited' = Note("next", v # NULL)
      /\ reads' = Sat(reads)
      /\ strayOps' = (strayOps \/ ~g_vmi)
      /\ current_process' = IF v = NULL THEN current_process ELSE v
      /\ IF v # list_head /\ more
         THEN /\ pc' = looppc
              /\ UNCHANGED <<result, returns, stop>>
         ELSE /\ stop' = IF v = list_head THEN "cycle" ELSE "cap"
              /\ Return(pass, DEMO_SUCCESS)

\* ReadLink that reports a failed link read as an error of the pass
ReadLink_FailIsError(pass, more, looppc) ==
  \E v \in {vmi_read_addr_va(guest, Add64(current_process, tasks_offset))} :
      /\ visited' = Note("next", v # NULL)
      /\ reads' = Sat(reads)
      /\ strayOps' = (strayOps \/ ~g_vmi)
      /\ current_process' = IF v = NULL THEN current_process ELSE v
      /\ IF v # NULL /\ v # list_head /\ more
         THEN /\ pc' = looppc
              /\ UNCHANGED <<result, returns, stop>>
         ELSE /\ stop' = IF v = NULL THEN "linkfail"
                         ELSE IF v = list_head THEN "cycle" ELSE "cap"
              /\ Return(pass, IF v = NULL THEN DEMO_ERROR_PROCESS ELSE DEMO_SUCCESS)

\* ReadLink that reads the pointer at the node base instead of the link field
ReadLink_AtBase(pass, more, looppc) ==
  \E v \in {vmi_read_addr_va(guest, current_process)} :
      /\ visited' = Note("next", v # NULL)
      /\ reads' = Sat(reads)
      /\ strayOps' = (strayOps \/ ~g_vmi)
      /\ current_process' = IF v = NULL THEN current_process ELSE v
      /\ IF v # NULL /\ v # list_head /\ more
         THEN /\ pc' = looppc
              /\ UNCHANGED <<result, returns, stop>>
         ELSE /\ stop' = IF v = NULL THEN "linkfail"
                         ELSE IF v = list_head THEN "cycle" ELSE "cap"
              /\ Return(pass, DEMO_SUCCESS)

\* the read of the link field and the loop condition; more is the pass's
\* own condition to go on besides current_process != list_head
ReadLink(pass, more, looppc) ==
  \E v \in {vmi_read_addr_va(guest, Add64(current_process, tasks_offset))} :
      /\ visited' = Note("next", v # NULL)
      /\ reads' = Sat(reads)
      /\ strayOps' = (strayOps \/ ~g_vmi)
      /\ current_process' = IF v = NULL THEN current_process ELSE v
      /\ IF v # NULL /\ v # list_head /\ more
         THEN /\ pc' = looppc
              /\ UNCHANGED <<result, returns, stop>>
         ELSE /\ stop' = IF v = NULL THEN "linkfail"
                         ELSE IF v = list_head THEN "cycle" ELSE "cap"
              /\ Return(pass, DEMO_SUCCESS)

(***************************************************************************)
(* enumerate_processes                                                     *)
(***************************************************************************)
\* enumerate_processes_offsets testing only the link offset
enumerate_processes_offsets_LinkOnly ==
  /\ pc = "proc_offsets"
  /\ PassEntry
  /\ process_count' = 0
  /\ IF tasks_offset' = Zero64
     THEN Return("proc", DEMO_ERROR_PROCESS)
     ELSE pc' = "proc_head" /\ UNCHANGED <<result, returns>>
  /\ UNCHANGED <<guest, session, g_vmi, exitCode, total_analyzed,
                 total_processes_analyzed, thread_count, offset, records,
                 acquired, released, outstanding, writes>>

\* enumerate_processes_offsets that tells a failed lookup from an offset of
\* 0 and refuses only the failed lookup
enumerate_processes_offsets_MissingOnly ==
  /\ pc = "proc_offsets"
  /\ PassEntry
  /\ process_count' = 0
  /\ IF \E n \in OffsetNames : vmi_get_offset(session, n) = NULL
     THEN Return("proc", DEMO_ERROR_PROCESS)
     ELSE pc' = "proc_head" /\ UNCHANGED <<result, returns>>
  /\ UNCHANGED <<guest, session, g_vmi, exitCode, total_analyzed,
                 total_processes_analyzed, thread_count, offset, records,
                 acquired, released, outstanding, writes>>

enumerate_processes_offsets ==
  /\ pc = "proc_offsets"
  /\ PassEntry
  /\ process_count' = 0
  /\ IF tasks_offset' = Zero64 \/ pid_offset' = Zero64 \/ pname_offset' = Zero64
     THEN Return("proc", DEMO_ERROR_PROCESS)
     ELSE pc' = "proc_head" /\ UNCHANGED <<result, returns>>
  /\ UNCHANGED <<guest, session, g_vmi, exitCode, total_analyzed,
                 total_processes_analyzed, thread_count, offset, records,
                 acquired, released, outstanding, writes>>

enumerate_processes_head ==
  /\ pc = "proc_head"
  /\ ReadHead("proc", "proc_pid")
  /\ UNCHANGED <<guest, session, g_vmi, exitCode, pid, proc_name, tasks_offset,
                 pid_offset, pname_offset, process_count, total_analyzed,
                 total_processes_analyzed, thread_count, offset, records, visited,
                 nvis, stop, acquired, released, outstanding, writes>>

enumerate_processes_pid ==
  /\ pc = "proc_pid"
  /\ ReadPid("proc_name", "proc_link")
  /\ UNCHANGED <<guest, session, g_vmi, result, exitCode, list_head, proc_name,
                 tasks_offset, pid_offset, pname_offset, process_count,
                 total_analyzed, total_processes_analyzed, thread_count, offset,
                 records, lookups, stop, returns, acquired, released,
                 outstanding, writes>>

enumerate_processes_name ==
  /\ pc = "proc_name"
  /\ ReadName("proc_print", "proc_link")
  /\ UNCHANGED <<guest, session, g_vmi, result, exitCode, list_head,
                 current_process, pid, tasks_offset, pid_offset, pname_offset,
                 process_count, total_analyzed, total_processes_analyzed,
                 thread_count, offset, records, nvis, lookups, stop, returns,
                 acquired, released, writes>>

\* the printed line, process_count++ and free(proc_name)
enumerate_processes_print ==
  /\ pc = "proc_print"
  /\ records' = IF Len(records) < MaxTrace
                THEN Append(records, [pid |-> pid, name |-> proc_name,
                                      base |-> current_process])
                ELSE records
  /\ process_count' = Sat(process_count)
  /\ FreeName
  /\ pc' = "proc_link"
  /\ UNCHANGED <<guest, session, g_vmi, result, exitCode, list_head,
                 current_process, pid, tasks_offset, pid_offset, pname_offset,
                 total_analyzed, total_processes_analyzed, thread_count, offset,
                 visited, nvis, reads, lookups, stop, returns, acquired, released,
                 strayOps, writes>>

enumerate_processes_link ==
  /\ pc = "proc_link"
  /\ ReadLink("proc", TRUE, "proc_pid")
  /\ UNCHANGED <<guest, session, g_vmi, exitCode, list_head, pid, proc_name,
                 tasks_offset,
                 pid_offset, pname_offset, process_count, total_analyzed,
                 total_processes_analyzed, thread_count, offset, records, nvis,
                 lookups, acquired, released, outstanding, writes>>

\* what a finished process pass reports: the printed lines and the printed
\* total
ProcessReport == [records |-> records, decoded |-> process_count]

(***************************************************************************)
(* enumerate_modules                                                       *)
(***************************************************************************)
enumerate_modules_offsets ==
  /\ pc = "mod_offsets"
  /\ PassEntry
  /\ total_analyzed' = 0
  /\ pc' = "mod_head"
  /\ UNCHANGED <<guest, session, g_vmi, result, exitCode, process_count,
                 total_processes_analyzed, thread_count, offset, records, returns,
                 acquired, released, outstanding, writes>>

enumerate_modules_head ==
  /\ pc = "mod_head"
  /\ ReadHead("mod", "mod_pid")
  /\ UNCHANGED <<guest, session, g_vmi, exitCode, pid, proc_name, tasks_offset,
                 pid_offset, pname_offset, process_count, total_analyzed,
                 total_processes_analyzed, thread_count, offset, records, visited,
                 nvis, stop, acquired, released, outstanding, writes>>

enumerate_modules_pid ==
  /\ pc = "mod_pid"
  /\ ReadPid("mod_name", "mod_link")
  /\ UNCHANGED <<guest, session, g_vmi, result, exitCode, list_head, proc_name,
                 tasks_offset, pid_offset, pname_offset, process_count,
                 total_analyzed, total_processes_analyzed, thread_count, offset,
                 records, lookups, stop, returns, acquired, released,
                 outstanding, writes>>

enumerate_modules_name ==
  /\ pc = "mod_name"
  /\ ReadName("mod_analyze", "mod_link")
  /\ UNCHANGED <<guest, session, g_vmi, result, exitCode, list_head,
                 current_process, pid, tasks_offset, pid_offset, pname_offset,
                 process_count, total_analyzed, total_processes_analyzed,
                 thread_count, offset, records, nvis, lookups, stop, returns,
                 acquired, released, writes>>

\* a user process is analysed: one test read at EPROCESS+0x100, whose
\* outcome only changes what is printed
enumerate_modules_analyze ==
  /\ pc = "mod_analyze"
  /\ IF pid > ModulePidFloor /\ (StrStr(proc_name, DotExe) \/ StrStr(proc_name, Explorer))
     THEN /\ reads' = Sat(reads)
          /\ strayOps' = (strayOps \/ ~g_vmi)
          /\ total_analyzed' = total_analyzed + 1
     ELSE UNCHANGED <<reads, strayOps, total_analyzed>>
  /\ pc' = "mod_link"
  /\ UNCHANGED <<guest, session, g_vmi, result, exitCode, list_head,
                 current_process, pid, proc_name, tasks_offset, pid_offset,
                 pname_offset, process_count, total_processes_analyzed,
                 thread_count, offset, records, visited, nvis, lookups, stop,
                 returns, acquired, released, outstanding, writes>>

\* enumerate_modules_link whose loop condition leaves out the count of
\* analysed nodes
enumerate_modules_link_NoCap ==
  /\ pc = "mod_link"
  /\ FreeName
  /\ ReadLink("mod", TRUE, "mod_pid")
  /\ UNCHANGED <<guest, session, g_vmi, exitCode, list_head, pid, tasks_offset,
                 pid_offset, pname_offset, process_count, total_analyzed,
                 total_processes_analyzed, thread_count, offset, records, nvis,
                 lookups, acquired, released, writes>>

enumerate_modules_link ==
  /\ pc = "mod_link"
  /\ FreeName
  /\ ReadLink("mod", total_analyzed < AnalysisCap, "mod_pid")
  /\ UNCHANGED <<guest, session, g_vmi, exitCode, list_head, pid, tasks_offset,
                 pid_offset, pname_offset, process_count, total_analyzed,
                 total_processes_analyzed, thread_count, offset, records, nvis,
                 lookups, acquired, released, writes>>

(***************************************************************************)
(* enumerate_threads                                                       *)
(***************************************************************************)
enumerate_threads_offsets ==
  /\ pc = "thr_offsets"
  /\ PassEntry
  /\ total_processes_analyzed' = 0
  /\ pc' = "thr_head"
  /\ UNCHANGED <<guest, session, g_vmi, result, exitCode, process_count,
                 total_analyzed, thread_count, offset, records, returns, acquired,
                 released, outstanding, writes>>

enumerate_threads_head ==
  /\ pc = "thr_head"
  /\ ReadHead("thr", "thr_pid")
  /\ UNCHANGED <<guest, session, g_vmi, exitCode, pid, proc_name, tasks_offset,
                 pid_offset, pname_offset, process_count, total_analyzed,
                 total_processes_analyzed, thread_count, offset, records, visited,
                 nvis, stop, acquired, released, outstanding, writes>>

enumerate_threads_pid ==
  /\ pc = "thr_pid"
  /\ ReadPid("thr_name", "thr_link")
  /\ UNCHANGED <<guest, session, g_vmi, result, exitCode, list_head, proc_name,
                 tasks_offset, pid_offset, pname_offset, process_count,
                 total_analyzed, total_processes_analyzed, thread_count, offset,
                 records, lookups, stop, returns, acquired, released,
                 outstanding, writes>>

enumerate_threads_name ==
  /\ pc = "thr_name"
  /\ ReadName("thr_gate", "thr_link")
  /\ UNCHANGED <<guest, session, g_vmi, result, exitCode, list_head,
                 current_process, pid, tasks_offset, pid_offset, pname_offset,
                 process_count, total_analyzed, total_processes_analyzed,
                 thread_count, offset, records, nvis, lookups, stop, returns,
                 acquired, released, writes>>

\* the test that starts the scan of a node
enumerate_threads_gate ==
  /\ pc = "thr_gate"
  /\ IF pid > ThreadPidFloor /\ total_processes_analyzed < AnalysisCap
     THEN /\ thread_count' = 0
          /\ offset' = ScanStart
          /\ pc' = "thr_scan"
     ELSE /\ pc' = "thr_link"
          /\ UNCHANGED <<thread_count, offset>>
  /\ UNCHANGED <<guest, session, g_vmi, result, exitCode, list_head,
                 current_process, pid, proc_name, tasks_offset, pid_offset,
                 pname_offset, process_count, total_analyzed,
                 total_processes_analyzed, obs, writes>>

\* PlausiblePointer that also counts the lower bound itself
PlausiblePointer_Inclusive(w) == ~Lt64(w, KernelLow) /\ Lt64(w, KernelHigh)

\* a word counts when it lies strictly between the two bounds
PlausiblePointer(w) == Lt64(KernelLow, w) /\ Lt64(w, KernelHigh)

\* enumerate_threads_scan that gives up the pass with an error when a word
\* cannot be read
enumerate_threads_scan_FailAborts ==
  /\ pc = "thr_scan"
  /\ offset < ScanEnd
  /\ \E w \in {vmi_read_addr_va(guest, Add64(current_process, U64(offset)))} :
         /\ thread_count' = IF w # NULL /\ PlausiblePointer(w)
                            THEN thread_count + 1 ELSE thread_count
         /\ IF w = NULL
            THEN Return("thr", DEMO_ERROR_PROCESS)
            ELSE UNCHANGED <<pc, result, returns>>
  /\ offset' = offset + ScanStride
  /\ reads' = Sat(reads)
  /\ strayOps' = (strayOps \/ ~g_vmi)
  /\ UNCHANGED <<guest, session, g_vmi, exitCode, list_head,
                 current_process, pid, proc_name, tasks_offset, pid_offset,
                 pname_offset, process_count, total_analyzed,
                 total_processes_analyzed, records, visited, nvis, lookups, stop,
                 acquired, released, outstanding, writes>>

\* one iteration of the scan loop
enumerate_threads_scan ==
  /\ pc = "thr_scan"
  /\ offset < ScanEnd
  /\ \E w \in {vmi_read_addr_va(guest, Add64(current_process, U64(offset)))} :
         thread_count' = IF w # NULL /\ PlausiblePointer(w)
                         THEN thread_count + 1 ELSE thread_count
  /\ offset' = offset + ScanStride
  /\ reads' = Sat(reads)
  /\ strayOps' = (strayOps \/ ~g_vmi)
  /\ UNCHANGED <<guest, session, pc, g_vmi, result, exitCode, list_head,
                 current_process, pid, proc_name, tasks_offset, pid_offset,
                 pname_offset, process_count, total_analyzed,
                 total_processes_analyzed, records, visited, nvis, lookups, stop,
                 returns, acquired, released, outstanding, writes>>

\* the end of the scan loop: the summary line and the count of analysed nodes
enumerate_threads_scanned ==
  /\ pc = "thr_scan"
  /\ offset >= ScanEnd
  /\ total_processes_analyzed' = total_processes_analyzed + 1
  /\ pc' = "thr_link"
  /\ UNCHANGED <<guest, session, g_vmi, result, exitCode, list_head,
                 current_process, pid, proc_name, tasks_offset, pid_offset,
                 pname_offset, process_count, total_analyzed, thread_count, offset,
                 obs, writes>>

enumerate_threads_link ==
  /\ pc = "thr_link"
  /\ FreeName
  /\ ReadLink("thr", TRUE, "thr_pid")
  /\ UNCHANGED <<guest, session, g_vmi, exitCode, list_head, pid, tasks_offset,
                 pid_offset, pname_offset, process_count, total_analyzed,
                 total_processes_analyzed, thread_count, offset, records, nvis,
                 lookups, acquired, released, writes>>

(***************************************************************************)
(* The program.                                                            *)
(***************************************************************************)
Next ==
  \/ initialize_vmi
  \/ enumerate_processes_offsets
  \/ enumerate_processes_head
  \/ enumerate_processes_pid
  \/ enumerate_processes_name
  \/ enumerate_processes_print
  \/ enumerate_processes_link
  \/ main_after_processes
  \/ enumerate_modules_offsets
  \/ enumerate_modules_head
  \/ enumerate_modules_pid
  \/ enumerate_modules_name
  \/ enumerate_modules_analyze
  \/ enumerate_modules_link
  \/ main_after_modules
  \/ enumerate_threads_offsets
  \/ enumerate_threads_head
  \/ enumerate_threads_pid
  \/ enumerate_threads_name
  \/ enumerate_threads_gate
  \/ enumerate_threads_scan
  \/ enumerate_threads_scanned
  \/ enumerate_threads_link
  \/ main_after_threads
  \/ cleanup_vmi

Spec == Init /\ [][Next]_vars

\* the program is a single thread that always takes its next step
FairSpec == Spec /\ WF_vars(Next)

(***************************************************************************)
(* The module and the thread pass on their own.  Each pass does its own    *)
(* three offset lookups and its own head lookup, and the guest is a live   *)
(* machine whose list changes between the passes: a pass is entered with   *)
(* any table of offsets and any list, whatever the process pass found.     *)
(***************************************************************************)
PassInit ==
  /\ guest \in Guests
  /\ session \in Sessions
  /\ pc \in {"mod_offsets", "thr_offsets"}
  /\ g_vmi = TRUE
  /\ result = DEMO_SUCCESS
  /\ exitCode = -1
  /\ list_head = Zero64 /\ current_process = Zero64
  /\ pid = 0 /\ proc_name = NULL
  /\ tasks_offset = Zero64 /\ pid_offset = Zero64 /\ pname_offset = Zero64
  /\ process_count = 0 /\ total_analyzed = 0 /\ total_processes_analyzed = 0
  /\ thread_count = 0 /\ offset = 0
  /\ records = <<>> /\ visited = <<>> /\ nvis = 0 /\ reads = 0 /\ lookups = 0
  /\ stop = "none"
  /\ returns = IF pc = "mod_offsets"
               THEN << <<"proc", DEMO_SUCCESS>> >>
               ELSE << <<"proc", DEMO_SUCCESS>>, <<"mod", DEMO_SUCCESS>> >>
  /\ acquired = 1 /\ released = 0 /\ strayOps = FALSE
  /\ outstanding = 0 /\ writes = 0

PassNext ==
  \/ enumerate_modules_offsets
  \/ enumerate_modules_head
  \/ enumerate_modules_pid
  \/ enumerate_modules_name
  \/ enumerate_modules_analyze
  \/ enumerate_modules_link
  \/ main_after_modules
  \/ enumerate_threads_offsets
  \/ enumerate_threads_head
  \/ enumerate_threads_pid
  \/ enumerate_threads_name
  \/ enumerate_threads_gate
  \/ enumerate_threads_scan
  \/ enumerate_threads_scanned
  \/ enumerate_threads_link
  \/ main_after_threads
  \/ cleanup_vmi

PassSpec == PassInit /\ [][PassNext]_vars

(***************************************************************************)
(* What the guest holds, read off the guest itself (not off the program).  *)
(***************************************************************************)
\* the offsets the session resolves, NULL where the lookup fails
OffsetOf(name) == vmi_get_offset(session, name)

OffsetsPresent == \A n \in OffsetNames : OffsetOf(n) # NULL
OffsetsUsable == \A n \in OffsetNames : OffsetOf(n) # NULL /\ OffsetOf(n) # Zero64
HeadResolved == "PsActiveProcessHead" \in session.symbols

RangeOf(s) == {s[i] : i \in 1..Len(s)}

\* the link addresses of the circular list that starts at a, in list order;
\* <<>> when the chain does not lead back to the head
RECURSIVE Ring(_, _, _)
Ring(g, a, acc) ==
  LET v == ReadWord(g, a)
  IN  IF v = NULL THEN <<>>
      ELSE IF v = g.head THEN Append(acc, a)
      ELSE IF v \in RangeOf(acc) \cup {a} THEN <<>>
      ELSE Ring(g, v, Append(acc, a))

GuestRing == IF guest.head = NULL THEN <<>> ELSE Ring(guest, guest.head, <<>>)

\* the position in the chain of the first node whose link cannot be read;
\* 0 when the chain closes or cycles before any link read fails
RECURSIVE FailPos(_, _, _)
FailPos(g, a, acc) ==
  LET v == ReadWord(g, a)
  IN  IF v = NULL THEN Len(acc) + 1
      ELSE IF v = g.head \/ v \in RangeOf(acc) \cup {a} THEN 0
      ELSE FailPos(g, v, Append(acc, a))

GuestFailPos == IF guest.head = NULL THEN 0 ELSE FailPos(guest, guest.head, <<>>)

\* the chain of link addresses from the head up to position k
RECURSIVE Chain(_, _, _)
Chain(g, a, k) ==
  IF k = 0 THEN <<>>
  ELSE <<a>> \o (IF k = 1 THEN <<>> ELSE Chain(g, ReadWord(g, a), k - 1))

\* the node whose link field is at a, as the session's offsets decode it
BaseAt(a) == Sub64(a, OffsetOf("win_tasks"))
PidAt(a) == vmi_read_32_va(guest, Add64(BaseAt(a), OffsetOf("win_pid")))
NameAt(a) == vmi_read_str_va(guest, Add64(BaseAt(a), OffsetOf("win_pname")))
DataOK(a) == PidAt(a) # NULL /\ NameAt(a) # NULL
RecordAt(a) == [pid |-> ToInt32(PidAt(a)), name |-> NameAt(a), base |-> BaseAt(a)]

\* the records of the decodable nodes of a chain, in order
RecordsOf(chain) ==
  LET ok == SelectSeq(chain, DataOK)
  IN  [i \in 1..Len(ok) |-> RecordAt(ok[i])]

PassDone(p) == pc = "main_" \o p
InProcessPass ==
  pc \in {"proc_head", "proc_pid", "proc_name", "proc_print", "proc_link", "main_proc"}
AnyPassDone == pc \in {"main_proc", "main_mod", "main_thr"}

(***************************************************************************)
(* Claims.                                                                 *)
(***************************************************************************)

\* C1: on a well-formed circular list of N >= 1 nodes (offsets present,
\* every pid, name and link readable) the process pass prints exactly N
\* records, one per node base (link address minus the tasks offset), in list
\* order from the head, all bases distinct, and leaves its loop because the
\* link read returned the head.
C1_FullCycle ==
  (PassDone("proc") /\ OffsetsUsable /\ HeadResolved /\ GuestRing # <<>>
     /\ \A i \in 1..Len(GuestRing) : DataOK(GuestRing[i]))
  => /\ result = DEMO_SUCCESS
     /\ records = RecordsOf(GuestRing)
     /\ Len(records) = Len(GuestRing)
     /\ process_count = Len(GuestRing)
     /\ \A i \in 1..Len(records) : records[i].base = Sub64(GuestRing[i], U64(WinTasks))
     /\ \A i, j \in 1..Len(records) : i # j => records[i].base # records[j].base
     /\ nvis = Len(GuestRing)
     /\ stop = "cycle"

C1_Witness ==
  /\ PassDone("proc") /\ OffsetsUsable /\ HeadResolved
  /\ Len(GuestRing) = 3
  /\ \A i \in 1..3 : DataOK(GuestRing[i])
  /\ Len(records) = 3 /\ stop = "cycle"

\* C2: every run ends: whatever the guest holds, each pass leaves its loop
\* and the program reaches its exit.
C2_Terminates == <>(pc = "exit")

\* the ceiling a guest of at most MaxNodes nodes calls for; the program
\* defines none
WalkCeiling == MaxNodes + 1

\* C3: a pass never visits more nodes than a fixed ceiling (here one more
\* than the largest list the guest can hold).
C3_Ceiling == nvis <= WalkCeiling

\* C4: when the link read fails first at the k-th node of the chain, the
\* pass visits exactly k nodes, the k-th node's pid is still read before its
\* link, the pass ends there and returns success; no node is ever visited
\* after a failed link read; and a pass that stopped for another reason read
\* the link of every node, even where a data read failed.
C4_LinkFailStops ==
  /\ (AnyPassDone /\ stop # "none")
       => /\ (GuestFailPos > 0
                => /\ nvis = GuestFailPos
                   /\ Len(visited) = GuestFailPos
                   /\ [i \in 1..Len(visited) |-> visited[i].link]
                        = Chain(guest, guest.head, GuestFailPos)
                   /\ visited[nvis].pid # "none"
                   /\ visited[nvis].next = "fail"
                   /\ stop = "linkfail"
                   /\ result = DEMO_SUCCESS)
          /\ (stop = "linkfail" => GuestFailPos > 0)
          /\ (nvis = Len(visited) => visited[nvis].next # "none")
  \* at every moment: a node is visited only after the link of every
  \* earlier node was read successfully
  /\ \A i \in 1..Len(visited) : i < nvis => visited[i].next = "ok"

C4_Witness ==
  /\ PassDone("proc") /\ stop = "linkfail"
  /\ GuestFailPos = 2 /\ Len(guest.nodes) = 3
  /\ nvis = 2 /\ Len(records) = 2

\* C5: a node whose pid or name cannot be read yields no record, but its
\* link is read and the walk goes on: on a well-formed list of N nodes the
\* process pass visits all N and prints exactly the records of the nodes
\* whose data reads succeed, N minus the number of failing nodes.
C5_DataFailSkips ==
  (PassDone("proc") /\ OffsetsUsable /\ HeadResolved /\ GuestRing # <<>>)
  => /\ nvis = Len(GuestRing)
     /\ records = RecordsOf(GuestRing)
     /\ Len(records) = Len(GuestRing)
          - Cardinality({i \in 1..Len(GuestRing) : ~DataOK(GuestRing[i])})
     /\ process_count = Len(records)
     /\ \A i \in 1..Len(visited) :
          /\ visited[i].link = GuestRing[i]
          /\ (visited[i].pid = "fail" \/ visited[i].name = "fail")
               <=> ~DataOK(GuestRing[i])
          /\ visited[i].next = "ok"
     /\ stop = "cycle"

C5_Witness ==
  /\ PassDone("proc") /\ OffsetsUsable /\ HeadResolved
  /\ Len(GuestRing) = 3
  /\ ~DataOK(GuestRing[2]) /\ DataOK(GuestRing[1]) /\ DataOK(GuestRing[3])
  /\ Len(records) = 2
  /\ visited[2].next = "ok"

\* C6: when the lookup of any of the three offsets fails, the process pass
\* returns DEMO_ERROR_PROCESS once, prints no record, visits no node and
\* makes no guest read and no symbol resolution, whatever the list.
C6_MissingOffset ==
  (acquired = 1 /\ pc \in {"main_proc", "cleanup", "exit"} /\ ~OffsetsPresent)
  => /\ returns = << <<"proc", DEMO_ERROR_PROCESS>> >>
     /\ result = DEMO_ERROR_PROCESS
     /\ records = <<>>
     /\ nvis = 0 /\ reads = 0 /\ lookups = 0

C6_Witness ==
  /\ PassDone("proc") /\ acquired = 1
  /\ OffsetOf("win_pname") = NULL /\ OffsetOf("win_tasks") # NULL
  /\ Len(guest.nodes) = 3
  /\ result = DEMO_ERROR_PROCESS

\* C7: when the head symbol does not resolve, the pass visits no node, reads
\* no guest memory, prints nothing and returns DEMO_ERROR_PROCESS; the walk
\* of a list whose head links to itself returns DEMO_SUCCESS.
C7_HeadUnresolved ==
  /\ (AnyPassDone /\ OffsetsUsable /\ ~HeadResolved)
       => /\ result = DEMO_ERROR_PROCESS
          /\ returns[Len(returns)][2] = DEMO_ERROR_PROCESS
          /\ nvis = 0 /\ reads = 0 /\ visited = <<>>
          /\ stop = "none"
          /\ records = <<>>
  /\ (AnyPassDone /\ OffsetsUsable /\ HeadResolved /\ Len(GuestRing) = 1)
       => /\ result = DEMO_SUCCESS
          /\ nvis = 1

C7_Witness ==
  /\ PassDone("proc") /\ OffsetsUsable /\ ~HeadResolved
  /\ guest.head # NULL /\ Len(guest.nodes) = 2
  /\ result = DEMO_ERROR_PROCESS /\ lookups = 1

\* C8: the session is acquired at most once and released at most once, never
\* released without being acquired; at exit every acquired session has been
\* released; the handle is set exactly between the two; and no LibVMI call
\* is made while the handle is NULL.
C8_SessionScope ==
  /\ acquired <= 1
  /\ released <= acquired
  /\ g_vmi <=> (acquired = 1 /\ released = 0)
  /\ ~strayOps
  /\ pc = "exit" => released = acquired
  /\ (reads > 0 \/ lookups > 0 \/ nvis > 0) => acquired = 1

C8_Witness ==
  /\ pc = "exit" /\ acquired = 1 /\ released = 1
  /\ result = DEMO_ERROR_PROCESS /\ Len(returns) = 1

\* C9: at exit the exit code is 0 exactly when the session opened and all
\* three passes returned success, and 1 otherwise; in particular it is 1
\* when the session did not open, an offset is missing or the head symbol
\* does not resolve.
C9_ExitCode ==
  pc = "exit"
  => /\ exitCode \in {EXIT_SUCCESS, EXIT_FAILURE}
     /\ (exitCode = EXIT_SUCCESS)
          <=> /\ acquired = 1
              /\ [i \in 1..Len(returns) |-> returns[i]]
                   = << <<"proc", DEMO_SUCCESS>>, <<"mod", DEMO_SUCCESS>>,
                        <<"thr", DEMO_SUCCESS>> >>
     /\ acquired = 0 => exitCode = EXIT_FAILURE
     /\ (acquired = 1 /\ (~OffsetsPresent \/ ~HeadResolved))
          => exitCode = EXIT_FAILURE
     /\ (\E i \in 1..Len(returns) : returns[i][2] # DEMO_SUCCESS)
          => exitCode = EXIT_FAILURE

C9_Witness ==
  /\ pc = "exit" /\ exitCode = EXIT_SUCCESS /\ Len(returns) = 3
  /\ Len(guest.nodes) = 3

\* C10: a failed read of a pid, a name, a link or a scanned word never
\* becomes an error: a pass that entered its loop returns DEMO_SUCCESS, and
\* with the session open, the offsets usable and the head read, the exit
\* code is 0 whatever node reads fail.
C10_NodeReadsNotFatal ==
  /\ (AnyPassDone /\ stop # "none") => result = DEMO_SUCCESS
  /\ (AnyPassDone /\ nvis > 0) => result = DEMO_SUCCESS
  /\ (pc = "exit" /\ acquired = 1 /\ OffsetsUsable /\ HeadResolved
        /\ guest.head # NULL)
       => exitCode = EXIT_SUCCESS

C10_Witness ==
  /\ pc = "exit" /\ exitCode = EXIT_SUCCESS
  /\ guest.profile = "mixed"
  /\ Len(guest.nodes) = 3
  /\ ~guest.nodes[1].pid /\ ~guest.nodes[2].name /\ guest.nodes[3].next = NULL
  /\ Len(visited) = 3 /\ visited[3].next = "fail" /\ visited[1].pid = "fail"

\* C11: at the end of the process pass the report carries the counters
\* visited, decoded and skipped, with visited = decoded + skipped, decoded
\* the number of records and visited the number of nodes the walk visited.
C11_Counters ==
  (PassDone("proc") /\ stop # "none")
  => /\ {"visited", "decoded", "skipped"} \subseteq DOMAIN ProcessReport
     /\ ProcessReport.visited = ProcessReport.decoded + ProcessReport.skipped
     /\ ProcessReport.visited = nvis
     /\ ProcessReport.decoded = Len(records)

\* C12: every printed record belongs to one visit of one node: that visit
\* read the pid and the name successfully, and the record's pid, name and
\* base are the guest's pid and name of that node and that node's base; at
\* the print itself pid and proc_name are those of the node being visited.
C12_NoPartialRecord ==
  /\ \A k \in 1..Len(records) :
       \E n \in 1..Len(guest.nodes) :
          DataOK(LinkAddr(n)) /\ records[k] = RecordAt(LinkAddr(n))
  \* while the trace holds every visit of the pass
  /\ (InProcessPass /\ nvis = Len(visited))
       => /\ Len(records) <= Len(visited)
          /\ \A k \in 1..Len(records) :
               \E i \in k..Len(visited) :
                  /\ visited[i].pid = "ok" /\ visited[i].name = "ok"
                  /\ records[k].base = visited[i].base
                  /\ records[k].base = BaseAt(visited[i].link)
                  /\ DataOK(visited[i].link)
                  /\ records[k] = RecordAt(visited[i].link)
  /\ (pc = "proc_print" /\ nvis = Len(visited))
       => /\ visited[nvis].pid = "ok" /\ visited[nvis].name = "ok"
          /\ pid = ToInt32(PidAt(visited[nvis].link))
          /\ proc_name = NameAt(visited[nvis].link)
          /\ current_process = BaseAt(visited[nvis].link)
  /\ (PassDone("proc") /\ nvis = Len(visited))
       => Len(records) = Cardinality({i \in 1..Len(visited) :
                                        visited[i].pid = "ok" /\ visited[i].name = "ok"})

C12_Witness ==
  /\ PassDone("proc") /\ stop = "cycle"
  /\ Len(visited) = 3 /\ Len(records) = 1
  /\ visited[1].pid = "ok" /\ visited[1].name = "ok"
  /\ visited[2].pid = "fail" /\ visited[3].name = "fail"

\* the reads the trace of the current pass accounts for: the head, and each
\* field of each visit that was read
FieldsRead ==
  Cardinality({x \in (1..Len(visited)) \X {"pid", "name", "next"} :
                 visited[x[1]][x[2]] # "none"})
HeadReads == IF lookups > 0 /\ HeadResolved THEN 1 ELSE 0
NoReread ==
  \A i \in 1..Len(visited) :
     visited[i].pid # "again" /\ visited[i].name # "again" /\ visited[i].next # "again"

\* C13: no step of the tool changes guest memory; within a visit the pid, the
\* name and the link are each read at most once (an outcome once noted is
\* never replaced, and the process pass makes exactly one read for the head
\* and one per noted field), so a failed read is never tried again.
C13_NoRetryNoWrite ==
  [][ /\ guest' = guest
      /\ NoReread'
      /\ \A i \in 1..Len(visited) :
           i <= Len(visited')
           => /\ visited'[i].link = visited[i].link
              /\ \A f \in {"pid", "name", "next"} :
                   visited[i][f] # "none" => visited'[i][f] = visited[i][f]
      /\ (InProcessPass /\ nvis = Len(visited) /\ reads < CountCap)'
           => (reads = HeadReads + FieldsRead)' ]_vars

C13_Witness ==
  /\ PassDone("proc") /\ stop = "cycle"
  /\ Len(visited) = 1 /\ visited[1].name = "fail" /\ visited[1].next = "ok"
  /\ reads = 4 /\ records = <<>>

\* C14: in the module pass and in the thread pass the number of analysed
\* nodes never exceeds 10, however long the walk; the scan of one node reads
\* the 22 words at 0x150, 0x158, ..., 0x1f8 and no other, so the count of
\* matches of a node never exceeds the number of words read, at most 22.
C14_AnalysisCaps ==
  /\ total_analyzed <= 10
  /\ total_processes_analyzed <= 10
  /\ (stop = "cap" => total_analyzed = 10)
  /\ Cardinality(ScanOffsets) = 22
  /\ ScanOffsets = {336 + 8 * k : k \in 0..21}
  /\ thread_count <= 22
  /\ pc = "thr_scan"
       => /\ offset \in ScanOffsets \cup {512}
          /\ thread_count <= (offset - 336) \div 8

C14_Witness ==
  /\ total_analyzed = 10 /\ total_processes_analyzed = 10
  /\ thread_count = 22
  /\ pc = "thr_link" /\ nvis > MaxNodes
  /\ Len(guest.nodes) = 2

StageOrder == <<"proc", "mod", "thr">>
PassPcs(p) ==
  {p \o "_offsets", p \o "_head", p \o "_pid", p \o "_name", p \o "_print",
   p \o "_analyze", p \o "_gate", p \o "_scan", p \o "_link"}
StagesGated ==
  \* the passes return in the order process, module, thread, and only the
  \* last one that ran can have failed
  /\ Len(returns) <= 3
  /\ \A i \in 1..Len(returns) :
       /\ returns[i][1] = StageOrder[i]
       /\ i < Len(returns) => returns[i][2] = DEMO_SUCCESS
  \* without a session nothing is looked up, resolved or read
  /\ acquired = 0
       => /\ pc \in {"main", "cleanup", "exit"}
          /\ returns = <<>>
          /\ reads = 0 /\ lookups = 0 /\ nvis = 0
          /\ tasks_offset = Zero64 /\ pid_offset = Zero64 /\ pname_offset = Zero64
          /\ (pc # "main" => result = DEMO_ERROR_INIT)
  /\ ~strayOps
  \* a pass runs only after every earlier stage succeeded
  /\ \A k \in 1..3 :
       pc \in PassPcs(StageOrder[k])
       => /\ acquired = 1 /\ g_vmi
          /\ Len(returns) = k - 1
          /\ \A i \in 1..(k - 1) : returns[i][2] = DEMO_SUCCESS
  \* after a failed stage only main's test, the cleanup and the exit remain
  /\ (returns # <<>> /\ returns[Len(returns)][2] # DEMO_SUCCESS)
       => pc \in {"main_" \o returns[Len(returns)][1], "cleanup", "exit"}

\* C15: nothing is looked up, resolved or read without an open session; the
\* passes run in the order process, module, thread, each only after every
\* earlier stage returned success; and the step after a failed stage goes
\* to the cleanup.
C15_StageGating ==
  [][ /\ StagesGated /\ StagesGated'
      /\ (pc \in {"main", "main_proc", "main_mod", "main_thr"}
            /\ result' # DEMO_SUCCESS)
           => pc' = "cleanup"
      /\ pc = "cleanup" => (pc' = "exit" /\ returns' = returns /\ reads' = reads) ]_vars

C15_Witness ==
  /\ pc = "exit" /\ acquired = 1 /\ released = 1
  /\ returns = << <<"proc", DEMO_ERROR_PROCESS>> >>
  /\ OffsetsUsable /\ HeadResolved /\ guest.head = NULL
  /\ lookups = 1 /\ nvis = 0

\* C16: when any of the three offsets resolves to 0, whether its lookup
\* failed or the table holds 0 for it, the process pass returns
\* DEMO_ERROR_PROCESS, prints no record and visits no node; in both cases
\* the pass holds 0 for that offset.
C16_ZeroIsMissing ==
  (acquired = 1 /\ pc \notin {"main", "proc_offsets"}
     /\ \E n \in OffsetNames : get_offset_safe(session, n) = Zero64)
  => /\ returns = << <<"proc", DEMO_ERROR_PROCESS>> >>
     /\ result = DEMO_ERROR_PROCESS
     /\ pc \in {"main_proc", "cleanup", "exit"}
     /\ records = <<>> /\ process_count = 0
     /\ nvis = 0 /\ reads = 0 /\ lookups = 0
     /\ \A n \in OffsetNames :
          (OffsetOf(n) = NULL \/ OffsetOf(n) = Zero64)
          <=> CASE n = "win_tasks" -> tasks_offset = Zero64
                [] n = "win_pid" -> pid_offset = Zero64
                [] OTHER -> pname_offset = Zero64

C16_Witness ==
  /\ PassDone("proc") /\ acquired = 1
  /\ OffsetOf("win_pid") = Zero64
  /\ OffsetOf("win_tasks") # Zero64 /\ OffsetOf("win_pname") # Zero64
  /\ OffsetsPresent
  /\ GuestRing # <<>> /\ Len(GuestRing) = 3
  /\ result = DEMO_ERROR_PROCESS /\ records = <<>>

RoundTripAddrs ==
  {LinkAddr(i) : i \in 1..MaxNodes}
  \cup {Zero64, <<0, 0, 0, 1>>, KernelLow, KernelHigh, WildAddr, HeadSymbolAddr,
        <<32768, 0, 0, 0>>, <<32767, 65535, 65535, 65535>>}
RoundTripOffsets ==
  {Zero64, U64(WinTasks), U64(WinPid), U64(WinPname), <<0, 0, 1, 0>>,
   <<32768, 0, 0, 0>>, KernelHigh}

\* C18: the walk advances by the pointer stored at the link address of the
\* node, the address the visit started from: base = link - tasks_offset,
\* the link read is made at base + tasks_offset = link, its outcome is the
\* guest's word at link, and the next visit starts at that word; the round
\* trip (a - o) + o = a holds for 64-bit a and o, also when a - o wraps.
C18_LinkReadAtLinkAddress ==
  /\ pc = "main"
       => \A a \in RoundTripAddrs : \A o \in RoundTripOffsets :
             Add64(Sub64(a, o), o) = a
  /\ \A i \in 1..Len(visited) :
       /\ visited[i].base = Sub64(visited[i].link, tasks_offset)
       /\ Add64(visited[i].base, tasks_offset) = visited[i].link
       /\ visited[i].next = "ok" => ReadWord(guest, visited[i].link) # NULL
       /\ visited[i].next = "fail" => ReadWord(guest, visited[i].link) = NULL
       /\ i < Len(visited) => visited[i + 1].link = ReadWord(guest, visited[i].link)
  /\ Len(visited) > 0 => visited[1].link = list_head
  /\ (pc \in {"proc_link", "mod_link", "thr_link"} /\ nvis = Len(visited))
       => Add64(current_process, tasks_offset) = visited[nvis].link
  /\ (pc \in {"proc_pid", "mod_pid", "thr_pid"} /\ nvis = Len(visited) /\ nvis > 0)
       => current_process = ReadWord(guest, visited[nvis].link)

C18_Witness ==
  /\ PassDone("proc") /\ stop = "cycle"
  /\ Len(visited) = 3
  /\ visited[3].link = <<0, 0, 0, 264>>
  /\ visited[3].base = <<65535, 65535, 65535, 65408>>
  /\ visited[3].next = "ok" /\ Len(records) = 3

\* the canonical upper half of the address space: 0xffff800000000000 up to
\* 0xffffffffffffffff
CanonicalUpperHalf(w) == w[1] = 65535 /\ w[2] >= 32768

\* the values above 0xfffff80000000000 and below 0xffffffffffffffff
InScanRange(w) ==
  /\ w[1] = 65535 /\ w[2] >= 63488
  /\ w # <<65535, 63488, 0, 0>>
  /\ w # <<65535, 65535, 65535, 65535>>

\* the word the guest holds at offset o of the node being scanned
ScannedWord(o) == ReadWord(guest, Add64(current_process, U64(o)))

\* the scanned words below offset upto that are readable and satisfy P
Matches(P(_), upto) ==
  Cardinality({o \in ScanOffsets :
                 o < upto /\ \E w \in {ScannedWord(o)} : w # NULL /\ P(w)})

\* C19 as stated: the count of a finished scan is the number of readable
\* words of the scanned range whose value lies in the canonical upper half.
C19_CanonicalHalf ==
  (pc = "thr_scan" /\ offset = ScanEnd)
  => thread_count = Matches(CanonicalUpperHalf, ScanEnd)

\* C19 as amended: the count of a finished scan is the number of readable
\* words of the scanned range whose value is above 0xfffff80000000000 and
\* below 0xffffffffffffffff; every counted value lies in the canonical
\* upper half.
C19_ScanRange ==
  (pc = "thr_scan" /\ offset = ScanEnd)
  => /\ thread_count = Matches(InScanRange, ScanEnd)
     /\ \A o \in ScanOffsets :
          \A w \in {ScannedWord(o)} :
             (w # NULL /\ InScanRange(w)) => CanonicalUpperHalf(w)

C19_Witness ==
  /\ pc = "thr_scan" /\ offset = ScanEnd
  /\ guest.profile = "mixed"
  /\ thread_count > 0
  /\ thread_count < Matches(CanonicalUpperHalf, ScanEnd)
  /\ \E o \in ScanOffsets : ScannedWord(o) = <<65535, 32768, 0, 0>>
  /\ \E o \in ScanOffsets : ScannedWord(o) = KernelLow
  /\ \E o \in ScanOffsets : ScannedWord(o) = KernelHigh

\* C20: a step of the scan never ends the pass and never changes its result:
\* it goes on to the next word; a word that cannot be read or is out of range
\* leaves the count as it is, any other word adds one; after the last word
\* the pass goes on to the link of the node; and the thread pass returns
\* DEMO_SUCCESS whatever the scans found.
C20_ScanNeverFails ==
  [][ /\ (pc = "thr_scan" /\ offset < ScanEnd)
           => /\ pc' = "thr_scan"
              /\ offset' = offset + 8
              /\ result' = result /\ returns' = returns /\ stop' = stop
              /\ current_process' = current_process
              /\ \A w \in {ScannedWord(offset)} :
                   thread_count' = IF w = NULL \/ ~InScanRange(w)
                                   THEN thread_count ELSE thread_count + 1
      /\ (pc = "thr_scan" /\ offset >= ScanEnd)
           => /\ pc' = "thr_link"
              /\ result' = result /\ returns' = returns
      /\ (pc # "main_thr" /\ pc' = "main_thr" /\ nvis > 0)
           => /\ result' = DEMO_SUCCESS
              /\ returns'[Len(returns')] = <<"thr", DEMO_SUCCESS>> ]_vars

C20_Witness ==
  /\ pc = "main_thr" /\ result = DEMO_SUCCESS
  /\ guest.profile = "mixed"
  /\ total_processes_analyzed = 2
  /\ offset = ScanEnd
  /\ thread_count > 0 /\ thread_count < 22

(***************************************************************************)
(* The live guest.  The tool never pauses the guest, so the guest writes   *)
(* to its own list between the reads of the tool: it stores another link   *)
(* in a node (or leaves the link unreadable), and it makes the pid or the  *)
(* name of a node unreadable or readable again.  The run starts on a       *)
(* well-formed circular list whose every field is readable.                *)
(***************************************************************************)
\* writes the guest makes during one run
MaxWrites == 1

guest_writes ==
  \* between two reads of a pass
  /\ g_vmi /\ reads > 0
  /\ writes < MaxWrites
  /\ writes' = writes + 1
  /\ \E i \in 1..Len(guest.nodes) :
       \/ \E v \in {LinkAddr(j) : j \in 1..Len(guest.nodes)} \cup {NULL} :
            /\ v # guest.nodes[i].next
            /\ guest' = [guest EXCEPT !.nodes[i].next = v]
       \/ guest' = [guest EXCEPT !.nodes[i].pid = ~@]
       \/ guest' = [guest EXCEPT !.nodes[i].name = ~@]
  /\ UNCHANGED <<session, prog, obs>>

GuestInit ==
  /\ Init
  /\ GuestRing # <<>>
  /\ \A i \in 1..Len(guest.nodes) : guest.nodes[i].pid /\ guest.nodes[i].name

GuestNext == Next \/ guest_writes

GuestSpec == GuestInit /\ [][GuestNext]_vars

\* the tool always takes its next step; the guest writes when it likes
GuestFairSpec == GuestSpec /\ WF_vars(Next)

\* C21: with the guest writing between the reads of the tool, a run whose
\* process pass has its offsets and resolves the head still comes to its
\* end, and ends with success: no write of the guest keeps a pass from
\* ending or turns into an error of the program.
C21_EndsUnderMutation ==
  (pc = "proc_head" /\ HeadResolved) ~> (pc = "exit" /\ exitCode = EXIT_SUCCESS)

\* C22: a pass that has usable offsets and has read the head visits at least
\* one node, the node whose link field is at the head address; on a list
\* whose head node links back to the head, or whose first link cannot be
\* read, it visits exactly that node, and the process pass prints its record
\* exactly when its pid and name can be read.
C22_AtLeastOneVisit ==
  (AnyPassDone /\ OffsetsUsable /\ HeadResolved /\ guest.head # NULL)
  => /\ nvis >= 1
     /\ visited[1].link = guest.head
     /\ visited[1].base = BaseAt(guest.head)
     /\ visited[1].pid # "none" /\ visited[1].next # "none"
     /\ result = DEMO_SUCCESS
     /\ \A w \in {ReadWord(guest, guest.head)} :
          (w = guest.head \/ w = NULL)
          => /\ nvis = 1 /\ Len(visited) = 1
             /\ stop = IF w = NULL THEN "linkfail" ELSE "cycle"
             /\ PassDone("proc")
                  => /\ Len(records) = IF DataOK(guest.head) THEN 1 ELSE 0
                     /\ process_count = Len(records)

C22_Witness ==
  /\ PassDone("mod") /\ OffsetsUsable /\ HeadResolved
  /\ guest.head # NULL /\ ReadWord(guest, guest.head) = NULL
  /\ Len(guest.nodes) = 3
  /\ nvis = 1 /\ stop = "linkfail" /\ Len(records) = 1

(***************************************************************************)
(* The run from main, and each pass entered on a list of its own: the      *)
(* guest is live, so the list a later pass walks need not be the list the  *)
(* process pass walked; the session is the documented one.                 *)
(***************************************************************************)
WalkInit ==
  \/ Init
  \/ /\ guest \in Guests
     /\ session = [offsets |-> GoodOffsets, symbols |-> {"PsActiveProcessHead"}]
     /\ pc \in {"mod_offsets", "thr_offsets"}
     /\ g_vmi = TRUE
     /\ result = DEMO_SUCCESS
     /\ exitCode = -1
     /\ list_head = Zero64 /\ current_process = Zero64
     /\ pid = 0 /\ proc_name = NULL
     /\ tasks_offset = Zero64 /\ pid_offset = Zero64 /\ pname_offset = Zero64
     /\ process_count = 0 /\ total_analyzed = 0 /\ total_processes_analyzed = 0
     /\ thread_count = 0 /\ offset = 0
     /\ records = <<>> /\ visited = <<>> /\ nvis = 0 /\ reads = 0 /\ lookups = 0
     /\ stop = "none"
     /\ returns = IF pc = "mod_offsets"
                  THEN << <<"proc", DEMO_SUCCESS>> >>
                  ELSE << <<"proc", DEMO_SUCCESS>>, <<"mod", DEMO_SUCCESS>> >>
     /\ acquired = 1 /\ released = 0 /\ strayOps = FALSE
     /\ outstanding = 0 /\ writes = 0

WalkSpec == WalkInit /\ [][Next]_vars

\* the state of the name buffers: the only buffer not yet freed is the one
\* proc_name points to; none is held at the top of the loop, before the
\* loop or after a return; the name is used only while its buffer is held
NameBuffers ==
  /\ outstanding = IF proc_name # NULL THEN 1 ELSE 0
  /\ pc \in {"proc_pid", "mod_pid", "thr_pid", "main_proc", "main_mod", "main_thr",
             "proc_head", "mod_head", "thr_head", "cleanup", "exit"}
       => outstanding = 0
  /\ pc \in {"proc_print", "mod_analyze", "thr_gate", "thr_scan"}
       => (proc_name # NULL /\ outstanding = 1)

\* C23: in all three passes a name buffer is held only between the read that
\* returned it and the one free that follows; every step that returns a
\* buffer starts with none held, every free frees the buffer proc_name
\* points to and clears proc_name, and no buffer is held at the top of the
\* loop or when a pass returns, whichever way the iteration went.
C23_NameFreedOnce ==
  [][ /\ NameBuffers /\ NameBuffers'
      /\ outstanding' > outstanding
           => /\ outstanding = 0 /\ proc_name = NULL
              /\ proc_name' # NULL
              /\ pc \in {"proc_name", "mod_name", "thr_name"}
      /\ outstanding' < outstanding
           => /\ outstanding = 1 /\ outstanding' = 0
              /\ proc_name # NULL /\ proc_name' = NULL
              /\ pc \in {"proc_print", "mod_link", "thr_link"}
      /\ (proc_name # NULL /\ proc_name' # proc_name) => outstanding' < outstanding ]_vars

C23_Witness ==
  /\ PassDone("mod") /\ stop = "cap"
  /\ total_analyzed = 10 /\ nvis > MaxNodes
  /\ outstanding = 0 /\ proc_name = NULL

====
